---- MODULE Spec2Model ----
(***************************************************************************)
(* ESOP Tax Impact Simulator (streamlit_app.py).                           *)
(*                                                                         *)
(* The script is re-executed from top to bottom on every widget            *)
(* interaction.  Its state is the widget values; everything else           *)
(* (adjusted_options, df, filtered, current_row, the explanation panel's   *)
(* figures) is recomputed by each run.                                     *)
(*                                                                         *)
(* All real-valued arithmetic of the script is Python float arithmetic,    *)
(* i.e. IEEE-754 binary64 with round-to-nearest-even after every           *)
(* operation, and round() is round-half-to-even on the binary64 value.     *)
(* It is modelled bit-exactly: a float is <<m, e>> with value m * 2^e,     *)
(* where m is zero or has exactly 53 bits.  Mantissas exceed the integer   *)
(* range of the model checker, so they are kept as little-endian limb      *)
(* sequences in radix 2^14.                                                *)
(***************************************************************************)
EXTENDS Integers, Sequences, FiniteSets, TLC

VARIABLES
    adjust_mode,        \* st.radio
    option_pct,         \* st.slider, rendered in percentage mode
    number_value,       \* st.number_input, rendered in absolute mode
    valuation,          \* st.slider
    adjusted_options,   \* module-level variables assigned by the run
    df, filtered, current_row,
    panel,              \* the explanation panel's variables
    error               \* exception that stopped the run, or "none"

vars == <<adjust_mode, option_pct, number_value, valuation,
          adjusted_options, df, filtered, current_row, panel, error>>


(***************************************************************************)
(* Natural numbers of arbitrary size (little-endian limbs, no leading      *)
(* zero limb; zero is the empty sequence).                                 *)
(*                                                                         *)
(* An operator argument or a LET definition is evaluated anew at each of   *)
(* its uses when the evaluator keeps no lazy values; a variable bound      *)
(* over a singleton set, {body : x \in {e}}, holds the value of e.  The    *)
(* arithmetic binds its operands that way, and Only takes the one element  *)
(* out.                                                                    *)
(***************************************************************************)
Only(S) == CHOOSE r \in S : TRUE

LimbBits == 14
Base == 2^LimbBits

Pow2(k) == 2^k

Zeros(n) == [i \in 1..n |-> 0]

BigNormV(a, nz) ==
    IF nz = {} THEN <<>>
    ELSE SubSeq(a, 1, CHOOSE i \in nz : \A j \in nz : j <= i)

BigNorm(a0) ==
    Only({BigNormV(a, {i \in 1..Len(a) : a[i] # 0}) : a \in {a0}})

\* a machine-sized natural (below 2^31)
NatToBig(n0) ==
    Only({BigNorm(<<n % Base, (n \div Base) % Base, n \div (Base * Base)>>) :
            n \in {n0}})

\* only for values below 2^31
BigToNat(a0) ==
    Only({LET f[i \in 0..Len(a)] ==
                  IF i = 0 THEN 0 ELSE a[Len(a) - i + 1] + Base * f[i - 1]
          IN  f[Len(a)] : a \in {a0}})

Limb(a, i) == IF i <= Len(a) THEN a[i] ELSE 0

\* <<digits, carry>> after one more limb, t being the sum at that limb
CarryStep(digits, t) == <<Append(digits, t % Base), t \div Base>>

WithCarry(r) == IF r[2] = 0 THEN r[1] ELSE Append(r[1], r[2])

BigAdd(a0, b0) ==
    Only({LET n == IF Len(a) > Len(b) THEN Len(a) ELSE Len(b)
              f[i \in 0..n] ==
                  IF i = 0 THEN <<<<>>, 0>>
                  ELSE Only({Only({CarryStep(prev[1], t) :
                                    t \in {Limb(a, i) + Limb(b, i) + prev[2]}}) :
                                prev \in {f[i - 1]}})
          IN  Only({WithCarry(r) : r \in {f[n]}}) : a \in {a0}, b \in {b0}})

\* <<digits, borrow>> after one more limb, d being the difference at that limb
BorrowStep(digits, d) ==
    IF d < 0 THEN <<Append(digits, d + Base), 1>> ELSE <<Append(digits, d), 0>>

\* a - b for a >= b
BigSub(a0, b0) ==
    Only({LET f[i \in 0..Len(a)] ==
                  IF i = 0 THEN <<<<>>, 0>>
                  ELSE Only({Only({BorrowStep(prev[1], d) :
                                    d \in {a[i] - Limb(b, i) - prev[2]}}) :
                                prev \in {f[i - 1]}})
          IN  BigNorm(f[Len(a)][1]) : a \in {a0}, b \in {b0}})

BigCmpV(a, b, diff) ==
    IF diff = {} THEN 0
    ELSE Only({IF a[top] < b[top] THEN -1 ELSE 1 :
                top \in {CHOOSE i \in diff : \A j \in diff : j <= i}})

\* -1, 0, 1 as a < b, a = b, a > b
BigCmp(a0, b0) ==
    Only({IF Len(a) < Len(b) THEN -1
          ELSE IF Len(a) > Len(b) THEN 1
          ELSE BigCmpV(a, b, {i \in 1..Len(a) : a[i] # b[i]}) :
            a \in {a0}, b \in {b0}})

\* a * s for one limb s
BigMulLimb(a0, s0) ==
    Only({LET f[i \in 0..Len(a)] ==
                  IF i = 0 THEN <<<<>>, 0>>
                  ELSE Only({Only({CarryStep(prev[1], t) :
                                    t \in {a[i] * s + prev[2]}}) :
                                prev \in {f[i - 1]}})
          IN  Only({WithCarry(r) : r \in {f[Len(a)]}}) : a \in {a0}, s \in {s0}})

BigMul(a0, b0) ==
    Only({LET f[j \in 0..Len(b)] ==
                  IF j = 0 THEN <<>>
                  ELSE BigAdd(f[j - 1], Zeros(j - 1) \o BigMulLimb(a, b[j]))
          IN  IF a = <<>> THEN <<>> ELSE BigNorm(f[Len(b)]) :
            a \in {a0}, b \in {b0}})

\* <<quotient, remainder>> after one more limb, cur being the running dividend
DivStep(quot, cur, d) == <<<<cur \div d>> \o quot, cur % d>>

\* <<a \div d, a % d>> for a machine-sized divisor 0 < d <= 100000
BigDivSmall(a0, d0) ==
    Only({LET f[i \in 0..Len(a)] ==
                  IF i = 0 THEN <<<<>>, 0>>
                  ELSE Only({Only({DivStep(prev[1], cur, d) :
                                    cur \in {prev[2] * Base + a[Len(a) - i + 1]}}) :
                                prev \in {f[i - 1]}})
          IN  Only({<<BigNorm(r[1]), r[2]>> : r \in {f[Len(a)]}}) :
            a \in {a0}, d \in {d0}})

BigShl(a0, k0) ==
    Only({IF a = <<>> THEN <<>>
          ELSE Zeros(k \div LimbBits) \o BigMulLimb(a, Pow2(k % LimbBits)) :
            a \in {a0}, k \in {k0}})

BigShr(a0, k0) ==
    Only({IF k \div LimbBits >= Len(a) THEN <<>>
          ELSE BigDivSmall(SubSeq(a, (k \div LimbBits) + 1, Len(a)),
                           Pow2(k % LimbBits))[1] :
            a \in {a0}, k \in {k0}})

\* bit length of one limb
NatBits(n0) ==
    Only({IF n = 0 THEN 0
          ELSE CHOOSE k \in 1..LimbBits : Pow2(k - 1) <= n /\ n < Pow2(k) :
            n \in {n0}})

BigBits(a0) ==
    Only({IF a = <<>> THEN 0
          ELSE LimbBits * (Len(a) - 1) + NatBits(a[Len(a)]) : a \in {a0}})

BigIsOdd(a0) == Only({a # <<>> /\ a[1] % 2 = 1 : a \in {a0}})

\* q = a \div 2^k moved to the nearest: up when the part shifted out exceeds
\* one half (c > 0) or equals it (c = 0) and then sticky or q is odd
RoundUp(q, c, sticky) ==
    IF c > 0 \/ (c = 0 /\ (sticky \/ BigIsOdd(q))) THEN BigAdd(q, <<1>>) ELSE q

\* a \div 2^k rounded to nearest, ties to even; sticky says that a stands
\* for a value strictly above a (bits lost further down)
BigShrRound(a0, k0, sticky0) ==
    Only({IF k = 0 THEN a
          ELSE Only({RoundUp(q, BigCmp(BigSub(a, BigShl(q, k)),
                                       BigShl(<<1>>, k - 1)), sticky) :
                        q \in {BigShr(a, k)}}) :
            a \in {a0}, k \in {k0}, sticky \in {sticky0}})

(***************************************************************************)
(* Python float: binary64.  [s, m, e] stands for s * m * 2^e with s the    *)
(* sign, m zero or 2^52 <= m < 2^53.  Every operation returns the exact    *)
(* result rounded to nearest, ties to even.  (The magnitudes the script    *)
(* produces stay far inside the normal range, so no subnormal, infinity    *)
(* or NaN arises.)                                                         *)
(***************************************************************************)
MantBits == 53

FZero == [s |-> 1, m |-> <<>>, e |-> 0]

FIsZero(x) == x.m = <<>>

\* r is n rounded to MantBits bits, or one bit more when the rounding carried
FRoundCarry(sgn, r, e) ==
    IF BigBits(r) > MantBits
    THEN [s |-> sgn, m |-> BigShr(r, 1), e |-> e + 1]
    ELSE [s |-> sgn, m |-> r, e |-> e]

FRoundBits(sgn, n, e, sticky, bits) ==
    IF bits <= MantBits
    THEN [s |-> sgn, m |-> BigShl(n, MantBits - bits), e |-> e - (MantBits - bits)]
    ELSE Only({FRoundCarry(sgn, r, e + (bits - MantBits)) :
                r \in {BigShrRound(n, bits - MantBits, sticky)}})

\* the float nearest to sgn * n * 2^e (n a non-zero natural; sticky: the
\* exact value lies strictly above n in magnitude by less than one unit)
FRound(sgn0, n0, e0, sticky0) ==
    Only({Only({FRoundBits(sgn, n, e, sticky, bits) : bits \in {BigBits(n)}}) :
            sgn \in {sgn0}, n \in {n0}, e \in {e0}, sticky \in {sticky0}})

\* float(n) for a machine-sized int n
FromInt(n0) ==
    Only({IF n = 0 THEN FZero
          ELSE IF n < 0 THEN FRound(-1, NatToBig(-n), 0, FALSE)
          ELSE FRound(1, NatToBig(n), 0, FALSE) : n \in {n0}})

\* x * y
FMul(x0, y0) ==
    Only({IF FIsZero(x) \/ FIsZero(y) THEN FZero
          ELSE FRound(x.s * y.s, BigMul(x.m, y.m), x.e + y.e, FALSE) :
            x \in {x0}, y \in {y0}})

\* x / d for an int divisor 0 < d <= 100000
DivGuard == 20
FDivInt(x0, d0) ==
    Only({IF FIsZero(x) THEN FZero
          ELSE Only({FRound(x.s, qr[1], x.e - DivGuard, qr[2] # 0) :
                        qr \in {BigDivSmall(BigShl(x.m, DivGuard), d)}}) :
            x \in {x0}, d \in {d0}})

\* a * 2^e - b * 2^e
FSubAligned(a, b, e, c) ==
    IF c = 0 THEN FZero
    ELSE IF c > 0 THEN FRound(1, BigSub(a, b), e, FALSE)
    ELSE FRound(-1, BigSub(b, a), e, FALSE)

\* x - y for x, y >= 0
FSub(x0, y0) ==
    Only({IF FIsZero(y) THEN x
          ELSE IF FIsZero(x) THEN [y EXCEPT !.s = -1]
          ELSE Only({Only({FSubAligned(a, b, e, BigCmp(a, b)) :
                            a \in {BigShl(x.m, x.e - e)},
                            b \in {BigShl(y.m, y.e - e)}}) :
                        e \in {IF x.e < y.e THEN x.e ELSE y.e}}) :
            x \in {x0}, y \in {y0}})

\* the gain without the max(..., 0) guard
FMax0Unguarded(x) == x

\* max(x, 0)
FMax0(x0) == Only({IF x.s < 0 THEN FZero ELSE x : x \in {x0}})

\* -1, 0, 1 as x < y, x = y, x > y, for x, y >= 0
FCmp(x0, y0) ==
    Only({IF FIsZero(d) THEN 0 ELSE d.s : d \in {FSub(x0, y0)}})

\* int(x): truncation toward zero
PyInt(x0) ==
    Only({IF FIsZero(x) THEN 0
          ELSE IF x.e >= 0 THEN x.s * BigToNat(BigShl(x.m, x.e))
          ELSE x.s * BigToNat(BigShr(x.m, -x.e)) : x \in {x0}})

\* int(x) in place of round(x)
PyRoundTruncating(x) == PyInt(x)

\* round(x): the nearest int, ties to even
PyRound(x0) ==
    Only({IF FIsZero(x) THEN 0
          ELSE IF x.e >= 0 THEN x.s * BigToNat(BigShl(x.m, x.e))
          ELSE x.s * BigToNat(BigShrRound(x.m, -x.e, FALSE)) : x \in {x0}})

\* round(n) of an int is the int
PyRoundInt(n) == n

(***************************************************************************)
(* Constants of the script.                                                *)
(***************************************************************************)
BASE_OPTIONS == 2131
current_fmv == 4150
strike_price == 12
\* 36.67 / 100: the literal 36.67 is the float nearest to 3667/100
income_tax_rate == FDivInt(FDivInt(FromInt(3667), 100), 100)
\* 125 / 100: the decimal point of the rate misplaced
ltcg_rate_misplaced == FDivInt(FromInt(125), 100)

\* 12.5 / 100: the literal 12.5 is 25/2 exactly
ltcg_rate == FDivInt(FDivInt(FromInt(25), 2), 100)
Lac == 100000

(***************************************************************************)
(* calculate_data(adjusted_options): one row per val in range(1, 11).      *)
(* The argument is a float (percentage mode) or an int (absolute mode);    *)
(* an int operand is converted to float by the first float                 *)
(* multiplication, so the argument is passed as a float here.              *)
(***************************************************************************)
\* current_fmv * (val // 3): floor division
IpoFmvFloorDiv(val) == FMul(FromInt(current_fmv), FromInt(val \div 3))

IpoFmv(val) == FMul(FromInt(current_fmv), FDivInt(FromInt(val), 3))

\* the operands of the subtraction exchanged
TaxSavingsSwapped(tax_without_exercise, total_tax_with_exercise) ==
    PyRoundInt(total_tax_with_exercise - tax_without_exercise)

\* tax_savings = round(tax_without_exercise - total_tax_with_exercise)
TaxSavings(tax_without_exercise, total_tax_with_exercise) ==
    PyRoundInt(tax_without_exercise - total_tax_with_exercise)

\* the row's five rounded amounts, given the row's IPO price
RowAmounts(options, val, ipo_fmv) ==
    [val |-> val,
     option_value |-> PyRound(FDivInt(FMul(options, ipo_fmv), Lac)),
     tax_without_exercise |->
         PyRound(FDivInt(FMul(FMul(options,
                                   FSub(ipo_fmv, FromInt(strike_price))),
                              income_tax_rate), Lac)),
     perquisite_tax |->
         PyRound(FDivInt(FMul(FMul(options,
                                   FromInt(current_fmv - strike_price)),
                              income_tax_rate), Lac)),
     ltcg_tax |->
         PyRound(FDivInt(FMul(FMul(options,
                                   FMax0(FSub(ipo_fmv, FromInt(current_fmv)))),
                              ltcg_rate), Lac))]

\* the two totals derived from the rounded amounts
RowTotals(amounts, total_tax_with_exercise) ==
    [val |-> amounts.val,
     option_value |-> amounts.option_value,
     tax_without_exercise |-> amounts.tax_without_exercise,
     perquisite_tax |-> amounts.perquisite_tax,
     ltcg_tax |-> amounts.ltcg_tax,
     total_tax_with_exercise |-> total_tax_with_exercise,
     tax_savings |-> TaxSavings(amounts.tax_without_exercise,
                                total_tax_with_exercise)]

\* one pass of the loop body
Row(options, val) ==
    Only({Only({Only({RowTotals(amounts, total) :
                        total \in {PyRoundInt(amounts.perquisite_tax
                                              + amounts.ltcg_tax)}}) :
                  amounts \in {RowAmounts(options, val, ipo_fmv)}}) :
            ipo_fmv \in {IpoFmv(val)}})

\* range(0, 10)
ValRangeFromZero == [i \in 1..10 |-> i - 1]
\* range(1, 10)
ValRangeShort == [i \in 1..9 |-> i]

\* range(1, 11)
ValRange == [i \in 1..10 |-> i]

calculate_data(options0) ==
    Only({[i \in 1..Len(ValRange) |-> Row(options, ValRange[i])] :
            options \in {options0}})

(***************************************************************************)
(* The explanation panel's own arithmetic (in rupees, no division by       *)
(* 100000) for the selected valuation.                                     *)
(***************************************************************************)
PanelAmounts(options, ipo_fmv) ==
    [ipo_fmv |-> ipo_fmv,
     tax_no_exercise |->
         PyRound(FMul(FMul(options, FSub(ipo_fmv, FromInt(strike_price))),
                      income_tax_rate)),
     perquisite_tax |->
         PyRound(FMul(FMul(options, FromInt(current_fmv - strike_price)),
                      income_tax_rate)),
     ltcg_tax |->
         PyRound(FMul(FMul(options,
                           FMax0(FSub(ipo_fmv, FromInt(current_fmv)))),
                      ltcg_rate))]

PanelTotals(amounts, total_tax_exercise_now) ==
    [ipo_fmv |-> amounts.ipo_fmv,
     tax_no_exercise |-> amounts.tax_no_exercise,
     perquisite_tax |-> amounts.perquisite_tax,
     ltcg_tax |-> amounts.ltcg_tax,
     total_tax_exercise_now |-> total_tax_exercise_now,
     tax_savings |-> amounts.tax_no_exercise - total_tax_exercise_now]

Panel(options0, v) ==
    Only({Only({Only({PanelTotals(amounts, total) :
                        total \in {amounts.perquisite_tax + amounts.ltcg_tax}}) :
                  amounts \in {PanelAmounts(options, ipo_fmv)}}) :
            options \in {options0}, ipo_fmv \in {IpoFmv(v)}})

(***************************************************************************)
(* One execution of the script body for given widget values.               *)
(***************************************************************************)
Modes == {"Percentage", "Absolute Number"}
PctValues == {5 * k : k \in 0..20}      \* slider 0..100, step 5
Valuations == 1..10                     \* slider 1..10
PctDefault == 100
ValuationDefault == 3
NumberStep == 100
NumberMin == 0

\* largest option count entered in the number input
MaxOptions == 2231
\* slider positions the user moves the percentage slider to
PctMoves == {0, 5, 35, 45, 50, 55, 95, 100}
\* counts typed into the number input
TypedCounts == {31, 1031}

NoRow == [val |-> 0]
NoPanel == [tax_savings |-> 0]

AdjustedOptions(mode, pct, num) ==
    IF mode = "Percentage"
    THEN FMul(FromInt(BASE_OPTIONS), FDivInt(FromInt(pct), 100))
    ELSE FromInt(num)

\* df[df["IPO Valuation"] < valuation]
FilteredStrict(table, v) == SelectSeq(table, LAMBDA r : r.val < v)

\* df[df["IPO Valuation"] <= valuation]
Filtered(table, v) == SelectSeq(table, LAMBDA r : r.val <= v)

\* df[df["IPO Valuation"] == valuation]
Selected(table, v) == SelectSeq(table, LAMBDA r : r.val = v)

\* the outputs of a run once the table is built
ScriptOutputs(ao, table, v) ==
    [adjusted_options |-> ao,
     df |-> table,
     filtered |-> Filtered(table, v),
     \* .iloc[0] raises IndexError on an empty selection and the run stops
     current_row |-> IF Selected(table, v) = <<>> THEN NoRow
                     ELSE Selected(table, v)[1],
     panel |-> IF Selected(table, v) = <<>> THEN NoPanel ELSE Panel(ao, v),
     error |-> IF Selected(table, v) = <<>> THEN "IndexError" ELSE "none"]

Script(mode, pct, num, v) ==
    Only({Only({ScriptOutputs(ao, table, v) :
                  table \in {calculate_data(ao)}}) :
            ao \in {AdjustedOptions(mode, pct, num)}})

Init ==
    \E out \in {Script("Percentage", PctDefault, BASE_OPTIONS, ValuationDefault)} :
        /\ adjust_mode = "Percentage"
        /\ option_pct = PctDefault
        /\ number_value = BASE_OPTIONS
        /\ valuation = ValuationDefault
        /\ adjusted_options = out.adjusted_options
        /\ df = out.df
        /\ filtered = out.filtered
        /\ current_row = out.current_row
        /\ panel = out.panel
        /\ error = out.error

\* a rerun that keeps the table of the previous run while the mode is unchanged
RerunKeepingTable(mode, pct, num, v) ==
    \E out \in {Script(mode, pct, num, v)} :
    \E table \in {IF mode = adjust_mode THEN df ELSE out.df} :
        /\ adjust_mode' = mode
        /\ option_pct' = pct
        /\ number_value' = num
        /\ valuation' = v
        /\ adjusted_options' = out.adjusted_options
        /\ df' = table
        /\ filtered' = Filtered(table, v)
        /\ current_row' = Selected(table, v)[1]
        /\ panel' = out.panel
        /\ error' = out.error

\* the rerun that follows every widget change
Rerun(mode, pct, num, v) ==
    \E out \in {Script(mode, pct, num, v)} :
        /\ adjust_mode' = mode
        /\ option_pct' = pct
        /\ number_value' = num
        /\ valuation' = v
        /\ adjusted_options' = out.adjusted_options
        /\ df' = out.df
        /\ filtered' = out.filtered
        /\ current_row' = out.current_row
        /\ panel' = out.panel
        /\ error' = out.error

\* The radio is switched.  The input widget of the other mode is created
\* anew with its default value; the one no longer rendered loses its state.
ToggleMode ==
    \E mode \in Modes :
        /\ mode # adjust_mode
        /\ Rerun(mode, PctDefault, BASE_OPTIONS, valuation)

MovePctSlider(p) ==
    /\ adjust_mode = "Percentage"
    /\ p \in PctValues
    /\ p # option_pct
    /\ Rerun(adjust_mode, p, number_value, valuation)

TypeCount(n) ==
    /\ adjust_mode = "Absolute Number"
    /\ n >= NumberMin
    /\ n <= MaxOptions
    /\ n # number_value
    /\ Rerun(adjust_mode, option_pct, n, valuation)

StepUp ==
    /\ adjust_mode = "Absolute Number"
    /\ number_value + NumberStep <= MaxOptions
    /\ Rerun(adjust_mode, option_pct, number_value + NumberStep, valuation)

StepDown ==
    /\ adjust_mode = "Absolute Number"
    /\ number_value - NumberStep >= NumberMin
    /\ Rerun(adjust_mode, option_pct, number_value - NumberStep, valuation)

MoveValuation(v) ==
    /\ v # valuation
    /\ Rerun(adjust_mode, option_pct, number_value, v)

Next ==
    \/ ToggleMode
    \/ \E p \in PctMoves : MovePctSlider(p)
    \/ \E n \in TypedCounts : TypeCount(n)
    \/ StepUp
    \/ StepDown
    \/ \E v \in Valuations : MoveValuation(v)

Spec == Init /\ [][Next]_vars

(***************************************************************************)
(* Properties.                                                             *)
(***************************************************************************)
Rows == 1..Len(df)

\* C1: in every row of the table, 'Potential Tax Savings' equals
\* 'Tax Without Exercise' minus 'Total Tax with Exercise' exactly, for every
\* option count the inputs deliver; the value may be negative.
C1_SavingsIdentity ==
    \A i \in Rows :
        df[i].tax_savings =
            df[i].tax_without_exercise - df[i].total_tax_with_exercise

C1_Witness ==
    /\ adjust_mode = "Absolute Number"
    /\ number_value = 1031
    /\ df[1].tax_savings < 0
    /\ df[8].tax_savings > 0

\* C2: the table has exactly 10 rows and the i-th row has 'IPO Valuation' i.
C2_TenOrderedRows ==
    /\ Len(df) = 10
    /\ \A i \in 1..10 : df[i].val = i

C2_Witness ==
    /\ adjust_mode = "Percentage"
    /\ option_pct = 35
    /\ Len(df) = 10
    /\ df[10].val = 10

\* C3 as stated: with 2131 options, the row for m = 3 has fmv_at_ipo 4150,
\* perquisite tax 324, LTCG tax 0, total 324, tax without exercise 324,
\* savings 0, and the row for m = 6 has fmv_at_ipo 8300, LTCG tax 111,
\* total 435, tax without exercise 648, savings 213.
C3_AsStated ==
    adjusted_options = FromInt(BASE_OPTIONS) =>
        /\ IpoFmv(df[3].val) = FromInt(4150)
        /\ df[3].perquisite_tax = 324
        /\ df[3].ltcg_tax = 0
        /\ df[3].total_tax_with_exercise = 324
        /\ df[3].tax_without_exercise = 324
        /\ df[3].tax_savings = 0
        /\ IpoFmv(df[6].val) = FromInt(8300)
        /\ df[6].ltcg_tax = 111
        /\ df[6].total_tax_with_exercise = 435
        /\ df[6].tax_without_exercise = 648
        /\ df[6].tax_savings = 213

\* C3 amended: with 2131 options, the row for m = 3 has fmv_at_ipo 4150,
\* perquisite tax 32, LTCG tax 0, total 32, tax without exercise 32,
\* savings 0, and the row for m = 6 has fmv_at_ipo 8300, LTCG tax 11,
\* total 43, tax without exercise 65, savings 22.
C3_Scenario ==
    adjusted_options = FromInt(BASE_OPTIONS) =>
        /\ IpoFmv(df[3].val) = FromInt(4150)
        /\ df[3].perquisite_tax = 32
        /\ df[3].ltcg_tax = 0
        /\ df[3].total_tax_with_exercise = 32
        /\ df[3].tax_without_exercise = 32
        /\ df[3].tax_savings = 0
        /\ IpoFmv(df[6].val) = FromInt(8300)
        /\ df[6].ltcg_tax = 11
        /\ df[6].total_tax_with_exercise = 43
        /\ df[6].tax_without_exercise = 65
        /\ df[6].tax_savings = 22

C3_Witness ==
    /\ adjusted_options = FromInt(BASE_OPTIONS)
    /\ valuation = 6
    /\ current_row.tax_without_exercise = 65

\* C4: in every row whose fmv_at_ipo does not exceed current_fmv, which are
\* exactly the rows with multiple <= 3, 'LTCG Tax' is 0 and 'Total Tax with
\* Exercise' equals 'Perquisite Tax'.
C4_NoLtcgUpToCurrentFmv ==
    \A i \in Rows :
        LET below == FCmp(IpoFmv(df[i].val), FromInt(current_fmv)) <= 0
        IN  /\ below <=> df[i].val <= 3
            /\ below =>
                /\ df[i].ltcg_tax = 0
                /\ df[i].total_tax_with_exercise = df[i].perquisite_tax

C4_Witness ==
    /\ adjust_mode = "Absolute Number"
    /\ number_value = 1031
    /\ df[1].ltcg_tax = 0
    /\ df[1].perquisite_tax > 0
    /\ df[4].ltcg_tax > 0

\* C5: after any sequence of interactions the table in use is
\* calculate_data applied to the option count given by the current widget
\* values, whatever the earlier inputs were.
C5_TableOfCurrentInputs ==
    /\ adjusted_options = AdjustedOptions(adjust_mode, option_pct, number_value)
    /\ df = calculate_data(adjusted_options)

C5_Witness ==
    /\ adjust_mode = "Absolute Number"
    /\ number_value = 1031
    /\ valuation = 7
    /\ df = calculate_data(FromInt(1031))
    /\ df # calculate_data(FromInt(BASE_OPTIONS))

\* C6: filtered is the prefix of the table with the multiples 1..valuation
\* in table order, current_row is the row of the selected multiple and the
\* last row of that prefix, and the table still is the full 10-row table.
C6_PrefixAndSelectedRow ==
    /\ Len(filtered) = valuation
    /\ filtered = SubSeq(df, 1, valuation)
    /\ \A i \in 1..Len(filtered) : filtered[i].val = i
    /\ current_row.val = valuation
    /\ current_row = df[valuation]
    /\ current_row = filtered[Len(filtered)]
    /\ Len(df) = 10
    /\ df = calculate_data(adjusted_options)

C6_Witness ==
    /\ valuation = 4
    /\ Len(filtered) = 4
    /\ adjust_mode = "Percentage"
    /\ option_pct = 50

\* C7: no run fails: the option count is >= 0, the selected multiple is in
\* 1..10, the table has all 10 rows and the selected-row lookup finds
\* exactly one row.
C7_NoError ==
    /\ error = "none"
    /\ option_pct \in PctValues
    /\ number_value >= NumberMin
    /\ adjusted_options.s = 1
    /\ valuation \in 1..10
    /\ Len(df) = 10
    /\ Len(Selected(df, valuation)) = 1

C7_Witness ==
    /\ adjust_mode = "Percentage"
    /\ option_pct = 0
    /\ adjusted_options = FZero
    /\ valuation = 10
    /\ error = "none"
    /\ current_row.val = 10

\* C8: fmv_at_ipo is strictly increasing in the multiple: every smaller
\* multiple has a smaller fmv_at_ipo than the selected one, every larger
\* multiple a larger one, and fmv_at_ipo(3) is current_fmv.
C8_FmvStrictlyIncreasing ==
    /\ \A m \in Valuations :
        /\ m < valuation => FCmp(IpoFmv(m), panel.ipo_fmv) = -1
        /\ m > valuation => FCmp(IpoFmv(m), panel.ipo_fmv) = 1
    /\ valuation = 3 => panel.ipo_fmv = FromInt(current_fmv)

C8_Witness ==
    /\ valuation = 2
    /\ FCmp(IpoFmv(1), panel.ipo_fmv) = -1
    /\ FCmp(IpoFmv(3), panel.ipo_fmv) = 1

\* C9: the explanation panel's Potential Tax Savings (in rupees), divided
\* by 100000 and rounded, equals the 'Potential Tax Savings' (in lacs) of
\* the selected table row.
C9_PanelAgreesWithTable ==
    PyRound(FDivInt(FromInt(panel.tax_savings), Lac)) = current_row.tax_savings

\* C10: multiple 3 is the break-even point: savings is 0 in the row of
\* multiple 3, <= 0 in the rows below it and >= 0 in the rows above it.
C10_BreakEvenAtThree ==
    \A i \in Rows :
        /\ df[i].val = 3 => df[i].tax_savings = 0
        /\ df[i].val < 3 => df[i].tax_savings <= 0
        /\ df[i].val > 3 => df[i].tax_savings >= 0

C10_Witness ==
    /\ adjust_mode = "Percentage"
    /\ option_pct = 45
    /\ df[3].perquisite_tax > 0
    /\ df[2].tax_savings < 0
    /\ df[10].tax_savings > 0

====
